---- MODULE Spec2Model ----
(***************************************************************************)
(* Model of syres: the terminal booking client for switchyards.skedda.com. *)
(*                                                                         *)
(*   - src/src/app.rs          the view state machine, the main loop and   *)
(*                             the resolver (App::test_http_client)        *)
(*   - src/src/skedda_client.rs the session pipeline the interactive flow  *)
(*                             runs (cookie_store(true) client)            *)
(*   - src/src/http_client.rs  the library client with the manual cookie   *)
(*                             strategies                                  *)
(*                                                                         *)
(* Spec          is the interactive application (App::run).                *)
(* SpecResolver  is the resolver of App::test_http_client on any catalog.  *)
(* SpecHttp      is a caller of the http_client.rs operations.             *)
(* SpecExtract   is extract_csrf_token of both clients on any HTML body.   *)
(*                                                                         *)
(* Option<T> is modelled as a sequence: <<>> is None, <<v>> is Some(v).    *)
(***************************************************************************)
EXTENDS Integers, Sequences, FiniteSets, TLC

VARIABLES
    running,                      \* App.running
    current_view,                 \* App.current_view
    selected_location,            \* App.selected_location : Option<String>
    list_selected,                \* App.list_state.selected(), 0-based
    test_http,                    \* App.test_http
    selected_location_space_ids,  \* App.selected_location_space_ids : Vec<String>
    app_events,                   \* AppEvent::Quit events queued in App.events
    pc,                           \* position of App::run
    inflight,                     \* pipeline runs whose future has not completed
    latest,                       \* id of the most recently started pipeline run
    fetch_result,                 \* the Result test_http_client has just returned
    webs_status,                  \* the status of the /webs response it returned after, if any
    requests,                     \* the requests the pipeline run in progress or just over has sent
    exch,                         \* number of the server's last /booking exchange
    lib,                          \* the http_client.rs caller: client and call in progress
    webs_data,                    \* the spaceTags value the resolver is run on
    html_content,                 \* the HTML body extract_csrf_token is given
    csrf_token                    \* what extract_csrf_token returned: Some(token), None for Err

extract_vars == <<html_content, csrf_token>>

vars == <<running, current_view, selected_location, list_selected, test_http,
          selected_location_space_ids, app_events, pc, inflight, latest,
          fetch_result, webs_status, requests, exch, lib, webs_data, extract_vars>>

app_vars_but_pc == <<running, current_view, selected_location, list_selected, test_http,
                     selected_location_space_ids, app_events, inflight, latest, fetch_result, webs_status, requests>>

app_vars == <<running, current_view, selected_location, list_selected, test_http,
              selected_location_space_ids, app_events, pc, inflight, latest,
              fetch_result, webs_status, requests>>

(***************************************************************************)
(* Bounds of the model.                                                    *)
(***************************************************************************)
MaxQueue == 1        \* AppEvent::Quit events that may wait in the channel
MaxExchanges == 2    \* /booking exchanges are numbered 1..MaxExchanges, cyclically
MaxTags == 2         \* spaceTags entries of a catalog
MaxInflight == 2     \* pipeline runs that may exist at once
MaxNodes == 2        \* nodes of an HTML body given to extract_csrf_token alone

(***************************************************************************)
(* app.rs: constants and small helpers.                                    *)
(***************************************************************************)
LOCATIONS ==
    << "Adair Park", "Avondale Estates", "Buckhead", "Cabbagetown", "Chamblee",
       "Decatur", "Downtown", "Midtown", "Old Fourth Ward", "Roswell",
       "Virginia-Highland", "Westside" >>

ViewState == {"LocationSelection", "BookingForm", "Confirmation"}

None == <<>>
Some(v) == <<v>>

(***************************************************************************)
(* The RemoteCatalog as the resolver sees it:                              *)
(*   webs_data["venue"][0]["spacePresentation"]["spaceTags"]               *)
(* arr = FALSE stands for every document in which that path is not an      *)
(* array (serde_json indexing yields Null for a missing key or index).     *)
(* An item is a JSON object or not; its "name" is Some(string) when it is  *)
(* a JSON string and None otherwise; its "spaceIds" is an array or not; an *)
(* array element is an i64 (int = TRUE) or some other JSON value.          *)
(***************************************************************************)
NotArray == [arr |-> FALSE, v |-> <<>>]
Arr(s) == [arr |-> TRUE, v |-> s]
I(n) == [int |-> TRUE, n |-> n]
NonInt == [int |-> FALSE, n |-> 0]

TagNames == {None, Some("Adair Park"), Some("Avondale Estates"), Some("adair park")}
IdArrays == {NotArray, Arr(<<I(1), I(2), I(3)>>), Arr(<<I(12), NonInt, I(-4)>>)}
NonObject == [obj |-> FALSE, name |-> None, ids |-> NotArray]
Items == {NonObject} \cup {[obj |-> TRUE, name |-> nm, ids |-> a] : nm \in TagNames, a \in IdArrays}

SeqsUpTo(S, n) == UNION {[1..k -> S] : k \in 0..n}
NoCatalog == [arr |-> FALSE, tags |-> <<>>]
Catalogs == {NoCatalog} \cup {[arr |-> TRUE, tags |-> t] : t \in SeqsUpTo(Items, MaxTags)}

\* the catalogs the server of the interactive model answers with
ServedCatalogs == {c \in Catalogs : Len(c.tags) <= 1}

(***************************************************************************)
(* i64::to_string: the decimal digits, with a leading "-" when negative.   *)
(***************************************************************************)
Digit(d) == <<"0", "1", "2", "3", "4", "5", "6", "7", "8", "9">>[d + 1]

RECURSIVE Dec(_)
Dec(n) == IF n < 10 THEN Digit(n) ELSE Dec(n \div 10) \o Digit(n % 10)

to_string(n) == IF n < 0 THEN "-" \o Dec(-n) ELSE Dec(n)

(***************************************************************************)
(* space_ids.iter().filter_map(|v| v.as_i64()).map(|n| n.to_string())      *)
(***************************************************************************)
RECURSIVE collect_ids(_)
collect_ids(s) ==
    IF s = <<>> THEN <<>>
    ELSE IF Head(s).int THEN <<to_string(Head(s).n)>> \o collect_ids(Tail(s))
         ELSE collect_ids(Tail(s))

(***************************************************************************)
(* One iteration of the resolver's loop over the spaceTags items: the      *)
(* recorded ids after looking at `item`, given the ids recorded so far.    *)
(***************************************************************************)
resolve_item(cur, sel, item) ==
    IF item.obj /\ sel = item.name /\ item.ids.arr
    THEN collect_ids(item.ids.v)
    ELSE cur

RECURSIVE resolve_from(_, _, _, _)
resolve_from(items, i, sel, cur) ==
    IF i > Len(items) THEN cur
    ELSE resolve_from(items, i + 1, sel, resolve_item(cur, sel, items[i]))

(***************************************************************************)
(* The resolver of App::test_http_client: the value of                     *)
(* selected_location_space_ids after the catalog has been processed.       *)
(***************************************************************************)
resolve(cur, sel, catalog) ==
    IF catalog.arr THEN resolve_from(catalog.tags, 1, sel, cur) ELSE cur

(***************************************************************************)
(* The server. Exchange e issues the anti-forgery token TokenOf(e) and     *)
(* cookies whose value is e. A Set-Cookie header is name=val;attrs.        *)
(***************************************************************************)
NextExch == (exch % MaxExchanges) + 1

SecurityCookie == "X-Skedda-RequestVerificationCookie"

\* mentions: the header's value or attributes contain the text
\* "X-Skedda-RequestVerificationCookie="
\* ascii: the header's bytes are all visible ASCII (HeaderValue::to_str is Ok)
SetCookie(nm, e, at, m) ==
    [name |-> nm, val |-> e, attrs |-> at, mentions |-> m, ascii |-> TRUE]

\* a Set-Cookie header holding a byte outside visible ASCII
OpaqueSetCookie(nm, e) ==
    [name |-> nm, val |-> e, attrs |-> "Path=/", mentions |-> FALSE, ascii |-> FALSE]

SetCookieChoices(e) ==
    { <<>>,
      <<SetCookie(SecurityCookie, e, "Path=/", FALSE)>>,
      <<SetCookie("ai_user", e, "Path=/", FALSE), SetCookie(SecurityCookie, e, "HttpOnly", FALSE)>>,
      <<SetCookie("ref", e, "Path=/", TRUE), SetCookie(SecurityCookie, e, "Path=/", FALSE)>> }

\* cookie_str.split(';').next(): the name=value part of a Set-Cookie header
cookie_pair(h) == [name |-> h.name, val |-> h.val]

\* a cookie store after it has taken cookie c: one cookie per name
jar_put(jar, c) == SelectSeq(jar, LAMBDA x : x.name # c.name) \o <<c>>

\* a cookie store after a response with the Set-Cookie headers hs
RECURSIVE jar_store(_, _)
jar_store(jar, hs) ==
    IF hs = <<>> THEN jar
    ELSE jar_store(jar_put(jar, cookie_pair(Head(hs))), Tail(hs))

(***************************************************************************)
(* An HTML body is the sequence of its nodes in document order: input/meta *)
(* elements (value is the element's value attribute when it has one) and   *)
(* text (script or prose), given as the pieces a scan distinguishes: words *)
(* and the double-quote character.                                         *)
(***************************************************************************)
Quote == "\""

Elem(tg, nm, v) == [kind |-> "elem", tag |-> tg, name |-> nm, value |-> v, words |-> <<>>]
Text(ws) == [kind |-> "text", tag |-> "", name |-> "", value |-> None, words |-> ws]

\* the anti-forgery token the server embeds in the page of exchange e
TokenOf(e) == "tok" \o to_string(e)

BookingBodies(e) ==
    { <<>>,
      <<Elem("input", "__RequestVerificationToken", Some(TokenOf(e)))>>,
      <<Elem("input", "q", Some("")), Elem("input", "__RequestVerificationToken", Some(TokenOf(e)))>>,
      <<Elem("input", "__RequestVerificationToken", None)>>,
      <<Elem("meta", "csrf-token", Some(TokenOf(e)))>>,
      <<Text(<<"X-Skedda-RequestVerificationToken", ":", Quote, TokenOf(e), Quote>>)>> }

\* document.select(&selector).next(): the first element matching tag[name='nm']
RECURSIVE select_first(_, _, _)
select_first(body, tg, nm) ==
    IF body = <<>> THEN None
    ELSE IF Head(body).kind = "elem" /\ Head(body).tag = tg /\ Head(body).name = nm
         THEN Some(Head(body))
         ELSE select_first(Tail(body), tg, nm)

\* the value attribute of the first element a selector matches, if any
selector_value(body, sel) ==
    LET m == select_first(body, sel[1], sel[2])
    IN IF m # None THEN m[1].value ELSE None

\* for selector_str in &selectors { ... return Ok(token) ... }
RECURSIVE try_selectors(_, _)
try_selectors(body, selectors) ==
    IF selectors = <<>> THEN None
    ELSE IF selector_value(body, Head(selectors)) # None
         THEN selector_value(body, Head(selectors))
         ELSE try_selectors(body, Tail(selectors))

\* skedda_client.rs extract_csrf_token: one selector; Some(token) or None (Err)
sc_extract_csrf_token(body) ==
    try_selectors(body, << <<"input", "__RequestVerificationToken">> >>)

(***************************************************************************)
(* http_client.rs extract_csrf_token: four selectors, then a scan of the   *)
(* raw text for a header name followed by a quoted literal.                *)
(***************************************************************************)
hc_selectors ==
    << <<"input", "__RequestVerificationToken">>,
       <<"input", "X-Skedda-RequestVerificationToken">>,
       <<"meta", "csrf-token">>,
       <<"meta", "X-Skedda-RequestVerificationToken">> >>

token_patterns == <<"X-Skedda-RequestVerificationToken", "__RequestVerificationToken">>

\* the raw text of a node, as the pieces the scan distinguishes
node_pieces(n) ==
    IF n.kind = "text" THEN n.words
    ELSE <<"<" \o n.tag, " name=", Quote, n.name, Quote>>
         \o (IF n.value # None THEN <<" value=", Quote, n.value[1], Quote>> ELSE <<>>)
         \o <<">">>

RECURSIVE html_pieces(_)
html_pieces(body) ==
    IF body = <<>> THEN <<>> ELSE node_pieces(Head(body)) \o html_pieces(Tail(body))

\* str::find: the first index >= i of piece x, or 0
RECURSIVE find_from(_, _, _)
find_from(ps, x, i) ==
    IF i > Len(ps) THEN 0
    ELSE IF ps[i] = x THEN i ELSE find_from(ps, x, i + 1)

RECURSIVE concat(_, _, _)
concat(ps, i, j) == IF i > j THEN "" ELSE ps[i] \o concat(ps, i + 1, j)

\* one pattern of the scan: the text between the next two quotes after it
scan_pattern(ps, pattern) ==
    LET start == find_from(ps, pattern, 1)
        q1 == IF start = 0 THEN 0 ELSE find_from(ps, Quote, start)
        q2 == IF q1 = 0 THEN 0 ELSE find_from(ps, Quote, q1 + 1)
    IN IF q2 = 0 THEN None ELSE Some(concat(ps, q1 + 1, q2 - 1))

RECURSIVE try_patterns(_, _)
try_patterns(ps, patterns) ==
    IF patterns = <<>> THEN None
    ELSE IF scan_pattern(ps, Head(patterns)) # None
         THEN scan_pattern(ps, Head(patterns))
         ELSE try_patterns(ps, Tail(patterns))

\* an extraction that scans the raw text before it looks at the markup
hc_extract_scan_first(body) ==
    IF try_patterns(html_pieces(body), token_patterns) # None
    THEN try_patterns(html_pieces(body), token_patterns)
    ELSE try_selectors(body, hc_selectors)

hc_extract_csrf_token(body) ==
    IF try_selectors(body, hc_selectors) # None
    THEN try_selectors(body, hc_selectors)
    ELSE try_patterns(html_pieces(body), token_patterns)

(***************************************************************************)
(* A GET /webs request. token_exch is the /booking exchange from whose     *)
(* body the token was extracted; cookies are the cookies the request       *)
(* carries, each with the exchange that issued it as its value.            *)
(***************************************************************************)
WebsRequest(op, token, e, referer, cookies) ==
    [op |-> op, token |-> token, token_exch |-> e, accept |-> "application/json",
     referer |-> referer, cookies |-> cookies]

\* a pipeline whose client is shared by all runs: its store still holds the
\* cookies of the exchange before
sc_webs_request_shared_client(token, e, hs) ==
    WebsRequest("skedda_client", token, e, None,
                jar_store(jar_store(<<>>, <<SetCookie("ai_user", e - 1, "Path=/", FALSE),
                                            SetCookie(SecurityCookie, e - 1, "Path=/", FALSE)>>),
                          hs))

\* skedda_client::get_booking_data: the token header, Accept, and the cookies
\* the client's store (cookie_store(true)) took from the /booking response
sc_webs_request(token, e, hs) ==
    WebsRequest("skedda_client", token, e, None, jar_store(<<>>, hs))

(***************************************************************************)
(* Pipeline runs (App::test_http_client).                                  *)
(***************************************************************************)
Errors == {"client", "network", "no_token", "decode"}

\* the two requests of a run, as entries of `requests`
GetBooking == "GET /booking"
GetWebs == "GET /webs"

FreshId == CHOOSE i \in 1..MaxInflight : \A f \in inflight : f.id # i

\* a caller that spawns the future and goes on
block_on_detached(cont) == IF cont = "enter" THEN "top" ELSE "draw"

\* rt.block_on(future): the caller does not continue until the future completes
block_on(cont) == "fetch"

\* a caller that propagates the pipeline's error with `?`
after_fetch_propagating(cont, result) ==
    IF result \in Errors THEN "failed" ELSE IF cont = "enter" THEN "top" ELSE "draw"

\* where App::run continues once test_http_client has returned `result`:
\* `let _ = ...` in the Enter handler, `if let Err(e) = ... { eprintln! }` in run
after_fetch(cont, result) == IF cont = "enter" THEN "top" ELSE "draw"

\* an Enter handler that leaves the view alone when the pipeline failed
view_after_enter_on_ok(view, result) == IF result = "Ok" THEN "BookingForm" ELSE view

\* self.current_view = ViewState::BookingForm, after `let _ = self.test_http_client()`
view_after_enter(view, result) == "BookingForm"

StartFetch(cont) ==
    /\ Cardinality(inflight) < MaxInflight
    /\ inflight' = inflight \cup
           {[id |-> FreshId, cont |-> cont, stage |-> "booking", req |-> None,
             top_passed |-> FALSE]}
    /\ latest' = FreshId
    /\ pc' = block_on(cont)

\* test_http_client returns `result` to its caller
Finish(f, result) ==
    /\ inflight' = inflight \ {f}
    /\ fetch_result' = result
    /\ pc' = IF pc = "fetch" THEN after_fetch(f.cont, result) ELSE pc
    /\ current_view' = IF f.cont = "enter"
                       THEN view_after_enter(current_view, result)
                       ELSE current_view

\* Runtime::new()? or SkeddaClient::new()? fails
ClientBuildFail(f) ==
    /\ f.stage = "booking" /\ f.req = None
    /\ Finish(f, "client")
    /\ webs_status' = None
    /\ UNCHANGED requests
    /\ UNCHANGED <<running, selected_location, list_selected, test_http,
                   selected_location_space_ids, app_events, latest, exch, lib, webs_data, extract_vars>>

\* GET /booking: send() or text() fails
BookingTransportFail(f) ==
    /\ f.stage = "booking"
    /\ Finish(f, "network")
    /\ webs_status' = None
    /\ requests' = Append(requests, GetBooking)
    /\ UNCHANGED <<running, selected_location, list_selected, test_http,
                   selected_location_space_ids, app_events, latest, exch, lib, webs_data, extract_vars>>

\* a pipeline that goes on to /webs with an empty token when none is found
BookingNoTokenSendsAnyway(f) ==
    /\ f.stage = "booking"
    /\ \E body \in BookingBodies(NextExch), hs \in SetCookieChoices(NextExch) :
          /\ sc_extract_csrf_token(body) = None
          /\ inflight' = (inflight \ {f}) \cup
                {[f EXCEPT !.stage = "webs",
                           !.req = Some(sc_webs_request("", NextExch, hs))]}
    /\ exch' = NextExch
    /\ requests' = requests \o <<GetBooking, GetWebs>>
    /\ UNCHANGED <<running, current_view, selected_location, list_selected, test_http,
                   selected_location_space_ids, app_events, pc, latest, fetch_result,
                   webs_status, lib, webs_data, extract_vars>>

\* GET /booking answered, no token in the body
BookingNoToken(f) ==
    /\ f.stage = "booking"
    /\ \E body \in BookingBodies(NextExch) :
          /\ sc_extract_csrf_token(body) = None
          /\ Finish(f, "no_token")
    /\ webs_status' = None
    /\ requests' = Append(requests, GetBooking)
    /\ exch' = NextExch
    /\ UNCHANGED <<running, selected_location, list_selected, test_http,
                   selected_location_space_ids, app_events, latest, lib, webs_data, extract_vars>>

\* GET /booking answered, token extracted, GET /webs sent
BookingOk(f) ==
    /\ f.stage = "booking"
    /\ \E body \in BookingBodies(NextExch), hs \in SetCookieChoices(NextExch) :
          /\ sc_extract_csrf_token(body) # None
          /\ inflight' = (inflight \ {f}) \cup
                {[f EXCEPT !.stage = "webs",
                           !.req = Some(sc_webs_request(sc_extract_csrf_token(body)[1],
                                                        NextExch, hs))]}
    /\ exch' = NextExch
    /\ requests' = requests \o <<GetBooking, GetWebs>>
    /\ UNCHANGED <<running, current_view, selected_location, list_selected, test_http,
                   selected_location_space_ids, app_events, pc, latest, fetch_result,
                   webs_status, lib, webs_data, extract_vars>>

\* GET /webs: send() fails
WebsTransportFail(f) ==
    /\ f.stage = "webs"
    /\ Finish(f, "network")
    /\ webs_status' = None
    /\ UNCHANGED requests
    /\ UNCHANGED <<running, selected_location, list_selected, test_http,
                   selected_location_space_ids, app_events, latest, exch, lib, webs_data, extract_vars>>

\* the statuses a /webs response may have (response.status(), only printed)
WebsStatuses == {200, 403}

\* GET /webs answered with `status`, the body is not JSON
WebsDecodeFail(f, status) ==
    /\ f.stage = "webs"
    /\ Finish(f, "decode")
    /\ webs_status' = Some(status)
    /\ UNCHANGED requests
    /\ UNCHANGED <<running, selected_location, list_selected, test_http,
                   selected_location_space_ids, app_events, latest, exch, lib, webs_data, extract_vars>>

\* GET /webs answered with `status` and a JSON document: response.json() is
\* returned whatever the status, and the resolver runs on it
WebsOk(f, catalog, status) ==
    /\ f.stage = "webs"
    /\ selected_location_space_ids' =
           resolve(selected_location_space_ids, selected_location, catalog)
    /\ Finish(f, "Ok")
    /\ webs_status' = Some(status)
    /\ UNCHANGED requests
    /\ UNCHANGED <<running, selected_location, list_selected, test_http,
                   app_events, latest, exch, lib, webs_data, extract_vars>>

(***************************************************************************)
(* App::run, one step per statement of the loop body.                      *)
(***************************************************************************)
\* while self.running { if self.test_http { ... } ...
LoopTop ==
    /\ pc = "top"
    /\ fetch_result' = "none"
    /\ webs_status' = None
    /\ requests' = <<>>
    /\ IF ~running
       THEN /\ pc' = "done"
            /\ UNCHANGED <<test_http, inflight, latest>>
       ELSE IF test_http
            THEN /\ test_http' = FALSE
                 /\ StartFetch("loop")
            ELSE /\ pc' = "draw"
                 /\ inflight' = {[f EXCEPT !.top_passed = TRUE] : f \in inflight}
                 /\ UNCHANGED <<test_http, latest>>
    /\ UNCHANGED <<running, current_view, selected_location, list_selected,
                   selected_location_space_ids, app_events, exch, lib, webs_data, extract_vars>>

\* terminal.draw(|frame| self.render(frame))
Draw ==
    /\ pc = "draw"
    /\ pc' = "events"
    /\ fetch_result' = "none"
    /\ webs_status' = None
    /\ requests' = <<>>
    /\ UNCHANGED <<running, current_view, selected_location, list_selected, test_http,
                   selected_location_space_ids, app_events, inflight, latest, exch, lib, webs_data, extract_vars>>

(***************************************************************************)
(* App::handle_events: one action per event self.events.next() may return. *)
(***************************************************************************)
\* Event::Tick, a Crossterm event that is no key, or a key with no handler
Tick ==
    /\ pc = "events"
    /\ pc' = "top"
    /\ UNCHANGED <<running, current_view, selected_location, list_selected, test_http,
                   selected_location_space_ids, app_events, inflight, latest,
                   fetch_result, webs_status, requests, exch, lib, webs_data, extract_vars>>

\* EventHandler::send(app_event): the event joins the channel App.events reads
\* (event.rs is not among the sources; the queue is modelled as the number of
\* Quit events waiting in it)
events_send(queued) == queued + 1

\* a cancel that forgets to clear the resolved ids
cancel_ids_kept(ids) == ids

\* self.selected_location_space_ids.clear() on Esc / q in BookingForm and Confirmation
cancel_ids(ids) == <<>>

\* a handler whose Confirmation view has no arm for Esc / q
KeyEscConfirmationIgnored ==
    /\ pc = "events"
    /\ pc' = "top"
    /\ current_view # "Confirmation"
    /\ IF current_view = "LocationSelection"
       THEN /\ app_events < MaxQueue
            /\ app_events' = events_send(app_events)
            /\ UNCHANGED <<current_view, selected_location, selected_location_space_ids>>
       ELSE /\ current_view' = "LocationSelection"
            /\ selected_location' = None
            /\ selected_location_space_ids' = cancel_ids(selected_location_space_ids)
            /\ UNCHANGED app_events
    /\ UNCHANGED <<running, list_selected, test_http, inflight, latest,
                   fetch_result, webs_status, requests, exch, lib, webs_data, extract_vars>>

\* KeyCode::Esc | KeyCode::Char('q')
KeyEsc ==
    /\ pc = "events"
    /\ pc' = "top"
    /\ IF current_view = "LocationSelection"
       THEN /\ app_events < MaxQueue
            /\ app_events' = events_send(app_events)
            /\ UNCHANGED <<current_view, selected_location, selected_location_space_ids>>
       ELSE /\ current_view' = "LocationSelection"
            /\ selected_location' = None
            /\ selected_location_space_ids' = cancel_ids(selected_location_space_ids)
            /\ UNCHANGED app_events
    /\ UNCHANGED <<running, list_selected, test_http, inflight, latest,
                   fetch_result, webs_status, requests, exch, lib, webs_data, extract_vars>>

\* KeyCode::Char('c' | 'C') with KeyModifiers::CONTROL
KeyCtrlC ==
    /\ pc = "events"
    /\ pc' = "top"
    /\ app_events < MaxQueue
    /\ app_events' = events_send(app_events)
    /\ UNCHANGED <<running, current_view, selected_location, list_selected, test_http,
                   selected_location_space_ids, inflight, latest, fetch_result, webs_status, requests, exch, lib, webs_data, extract_vars>>

\* KeyCode::Char('t')
KeyT ==
    /\ pc = "events"
    /\ pc' = "top"
    /\ test_http' = TRUE
    /\ UNCHANGED <<running, current_view, selected_location, list_selected,
                   selected_location_space_ids, app_events, inflight, latest,
                   fetch_result, webs_status, requests, exch, lib, webs_data, extract_vars>>

\* usize::saturating_sub
saturating_sub(a, b) == IF a >= b THEN a - b ELSE 0

\* new_selected of the Up / k arm: the last index from index 0, else one less
new_selected_up(selected) ==
    IF selected = 0
    THEN saturating_sub(Len(LOCATIONS), 1)
    ELSE saturating_sub(selected, 1)

\* a Down / j arm that stops at the last index
new_selected_down_stops(selected) ==
    IF selected >= saturating_sub(Len(LOCATIONS), 1) THEN selected ELSE selected + 1

\* new_selected of the Down / j arm: index 0 from the last index, else one more
\* (saturating_add(1) of an index below the last one is the plain sum)
new_selected_down(selected) ==
    IF selected >= saturating_sub(Len(LOCATIONS), 1) THEN 0 ELSE selected + 1

\* KeyCode::Up | KeyCode::Char('k')
KeyUp ==
    /\ pc = "events"
    /\ pc' = "top"
    /\ list_selected' = new_selected_up(list_selected)
    /\ UNCHANGED <<running, current_view, selected_location, test_http,
                   selected_location_space_ids, app_events, inflight, latest,
                   fetch_result, webs_status, requests, exch, lib, webs_data, extract_vars>>

\* KeyCode::Down | KeyCode::Char('j')
KeyDown ==
    /\ pc = "events"
    /\ pc' = "top"
    /\ list_selected' = new_selected_down(list_selected)
    /\ UNCHANGED <<running, current_view, selected_location, test_http,
                   selected_location_space_ids, app_events, inflight, latest,
                   fetch_result, webs_status, requests, exch, lib, webs_data, extract_vars>>

\* KeyCode::Enter in LocationSelection; the handler goes on in the pipeline steps
KeyEnterSelect ==
    /\ pc = "events"
    /\ current_view = "LocationSelection"
    /\ list_selected < Len(LOCATIONS)
    /\ selected_location' = Some(LOCATIONS[list_selected + 1])
    /\ StartFetch("enter")
    /\ UNCHANGED <<running, current_view, list_selected, test_http,
                   selected_location_space_ids, app_events, fetch_result, webs_status, requests, exch, lib, webs_data, extract_vars>>

\* an Enter in BookingForm that runs the pipeline again before moving on
KeyEnterFormRefetching ==
    /\ pc = "events"
    /\ current_view = "BookingForm"
    /\ StartFetch("enter")
    /\ UNCHANGED <<running, current_view, selected_location, list_selected, test_http,
                   selected_location_space_ids, app_events, fetch_result, webs_status, requests, exch, lib, webs_data, extract_vars>>

\* KeyCode::Enter in BookingForm
KeyEnterForm ==
    /\ pc = "events"
    /\ current_view = "BookingForm"
    /\ pc' = "top"
    /\ current_view' = "Confirmation"
    /\ UNCHANGED <<running, selected_location, list_selected, test_http,
                   selected_location_space_ids, app_events, inflight, latest,
                   fetch_result, webs_status, requests, exch, lib, webs_data, extract_vars>>

\* an Enter in Confirmation that quits instead of starting over
KeyEnterConfirmationQuits ==
    /\ pc = "events"
    /\ current_view = "Confirmation"
    /\ pc' = "top"
    /\ app_events < MaxQueue
    /\ app_events' = events_send(app_events)
    /\ UNCHANGED <<running, current_view, selected_location, list_selected, test_http,
                   selected_location_space_ids, inflight, latest, fetch_result, webs_status, requests, exch, lib, webs_data, extract_vars>>

\* KeyCode::Enter in Confirmation
KeyEnterConfirmation ==
    /\ pc = "events"
    /\ current_view = "Confirmation"
    /\ pc' = "top"
    /\ current_view' = "LocationSelection"
    /\ selected_location' = None
    /\ UNCHANGED <<running, list_selected, test_http, selected_location_space_ids,
                   app_events, inflight, latest, fetch_result, webs_status, requests, exch, lib, webs_data, extract_vars>>

\* a handler that takes the Quit event off the channel and ignores it
AppQuitIgnored ==
    /\ pc = "events"
    /\ app_events > 0
    /\ app_events' = app_events - 1
    /\ pc' = "top"
    /\ UNCHANGED <<running, current_view, selected_location, list_selected, test_http,
                   selected_location_space_ids, inflight, latest, fetch_result, webs_status, requests,
                   exch, lib, webs_data, extract_vars>>

\* Event::App(AppEvent::Quit) => self.quit()
AppQuit ==
    /\ pc = "events"
    /\ app_events > 0
    /\ app_events' = app_events - 1
    /\ running' = FALSE
    /\ pc' = "top"
    /\ UNCHANGED <<current_view, selected_location, list_selected, test_http,
                   selected_location_space_ids, inflight, latest, fetch_result, webs_status, requests, exch, lib, webs_data, extract_vars>>

(***************************************************************************)
(* The interactive application.                                            *)
(***************************************************************************)

LibIdle ==
    [stage |-> "idle", op |-> "", arg |-> <<>>, req |-> None, result |-> "none",
     jar |-> <<>>, set_cookies |-> <<>>, cookie_header |-> None]

Init ==
    /\ running = TRUE
    /\ current_view = "LocationSelection"
    /\ selected_location = None
    /\ list_selected = 0
    /\ test_http = FALSE
    /\ selected_location_space_ids = <<>>
    /\ app_events = 0
    /\ pc = "top"
    /\ inflight = {}
    /\ latest = 0
    /\ fetch_result = "none"
    /\ webs_status = None
    /\ requests = <<>>
    /\ exch = MaxExchanges
    /\ lib = LibIdle
    /\ webs_data = NoCatalog
    /\ html_content = <<>>
    /\ csrf_token = None

Next ==
    \/ LoopTop
    \/ Draw
    \/ Tick
    \/ KeyEsc
    \/ KeyCtrlC
    \/ KeyT
    \/ KeyUp
    \/ KeyDown
    \/ KeyEnterSelect
    \/ KeyEnterForm
    \/ KeyEnterConfirmation
    \/ AppQuit
    \/ \E f \in inflight : ClientBuildFail(f)
    \/ \E f \in inflight : BookingTransportFail(f)
    \/ \E f \in inflight : BookingNoToken(f)
    \/ \E f \in inflight : BookingOk(f)
    \/ \E f \in inflight : WebsTransportFail(f)
    \/ \E f \in inflight, st \in WebsStatuses : WebsDecodeFail(f, st)
    \/ \E f \in inflight, c \in ServedCatalogs, st \in WebsStatuses : WebsOk(f, c, st)

Spec == Init /\ [][Next]_vars

(***************************************************************************)
(* The interactive application under the scheduling App::run relies on:    *)
(* the loop's own statements are executed, a request of the pipeline is    *)
(* answered or fails, and an event sent to the channel is the one          *)
(* self.events.next() returns after finitely many others.                  *)
(***************************************************************************)
PipelineStep ==
    \E f \in inflight :
        \/ ClientBuildFail(f)
        \/ BookingTransportFail(f)
        \/ BookingNoToken(f)
        \/ BookingOk(f)
        \/ WebsTransportFail(f)
        \/ \E st \in WebsStatuses : WebsDecodeFail(f, st)
        \/ \E c \in ServedCatalogs, st \in WebsStatuses : WebsOk(f, c, st)

Fairness ==
    /\ WF_vars(LoopTop)
    /\ WF_vars(Draw)
    /\ WF_vars(PipelineStep)
    /\ SF_vars(AppQuit)

SpecFair == Spec /\ Fairness

(***************************************************************************)
(* The resolver alone: the last statements of App::test_http_client, run   *)
(* on any catalog, for a recorded location and previously recorded ids.    *)
(***************************************************************************)
ResolverLocations == {None, Some("Adair Park"), Some("Avondale Estates"), Some("Westside")}
PriorIds == {<<>>, <<"1", "2", "3">>, <<"12", "-4">>}

InitResolver ==
    /\ running = TRUE
    /\ current_view = "LocationSelection"
    /\ selected_location \in ResolverLocations
    /\ list_selected = 0
    /\ test_http = FALSE
    /\ selected_location_space_ids \in PriorIds
    /\ app_events = 0
    /\ pc = "resolve"
    /\ inflight = {}
    /\ latest = 0
    /\ fetch_result = "none"
    /\ webs_status = None
    /\ requests = <<>>
    /\ exch = MaxExchanges
    /\ lib = LibIdle
    /\ webs_data \in Catalogs
    /\ html_content = <<>>
    /\ csrf_token = None

RunResolver ==
    /\ pc = "resolve"
    /\ selected_location_space_ids' =
           resolve(selected_location_space_ids, selected_location, webs_data)
    /\ pc' = "resolved"
    /\ UNCHANGED <<running, current_view, selected_location, list_selected, test_http,
                   app_events, inflight, latest, fetch_result, webs_status, requests, exch, lib, webs_data, extract_vars>>

\* the same resolver run once more on the same catalog and location
RunResolverAgain ==
    /\ pc = "resolved"
    /\ selected_location_space_ids' =
           resolve(selected_location_space_ids, selected_location, webs_data)
    /\ pc' = "resolved_again"
    /\ UNCHANGED <<running, current_view, selected_location, list_selected, test_http,
                   app_events, inflight, latest, fetch_result, webs_status, requests, exch, lib,
                   webs_data, extract_vars>>

NextResolver == RunResolver \/ RunResolverAgain

SpecResolver == InitResolver /\ [][NextResolver]_vars

(***************************************************************************)
(* extract_csrf_token alone, of http_client.rs and of skedda_client.rs, on *)
(* HTML bodies of up to MaxNodes nodes.                                    *)
(***************************************************************************)
HeaderName == "X-Skedda-RequestVerificationToken"
FieldName == "__RequestVerificationToken"

ExtractNodes ==
    { Elem("input", FieldName, Some(TokenOf(1))),
      Elem("input", FieldName, Some("")),
      Elem("input", FieldName, None),
      Elem("input", "q", Some("x")),
      Elem("meta", "csrf-token", Some(TokenOf(2))),
      Elem("meta", HeaderName, Some(TokenOf(3))),
      Text(<<HeaderName, ":", Quote, TokenOf(4), Quote>>),
      Text(<<Quote, HeaderName, Quote, ":", Quote, TokenOf(4), Quote>>),
      Text(<<FieldName>>),
      Text(<<"hello", Quote, "world", Quote>>) }

ExtractBodies == SeqsUpTo(ExtractNodes, MaxNodes)

InitExtract ==
    /\ running = TRUE
    /\ current_view = "LocationSelection"
    /\ selected_location = None
    /\ list_selected = 0
    /\ test_http = FALSE
    /\ selected_location_space_ids = <<>>
    /\ app_events = 0
    /\ pc = "extract"
    /\ inflight = {}
    /\ latest = 0
    /\ fetch_result = "none"
    /\ webs_status = None
    /\ requests = <<>>
    /\ exch = MaxExchanges
    /\ lib = LibIdle
    /\ webs_data = NoCatalog
    /\ html_content \in ExtractBodies
    /\ csrf_token = None

\* http_client.rs: self.extract_csrf_token(&html_content)
HcExtract ==
    /\ pc = "extract"
    /\ csrf_token' = hc_extract_csrf_token(html_content)
    /\ pc' = "hc_extracted"
    /\ UNCHANGED <<app_vars_but_pc, exch, lib, webs_data, html_content>>

\* skedda_client.rs: self.extract_csrf_token(&html_content)
ScExtract ==
    /\ pc = "extract"
    /\ csrf_token' = sc_extract_csrf_token(html_content)
    /\ pc' = "sc_extracted"
    /\ UNCHANGED <<app_vars_but_pc, exch, lib, webs_data, html_content>>

NextExtract == HcExtract \/ ScExtract

SpecExtract == InitExtract /\ [][NextExtract]_vars

(***************************************************************************)
(* A caller of http_client.rs: one SkeddaClient, one call at a time.       *)
(***************************************************************************)
HcOps == {"get_booking_data", "get_booking_data_with_cookies", "get_booking_data_synchronized"}

\* cookie strings a caller passes to get_booking_data_with_cookies: the cookies
\* of exchange e; 0 is an exchange of another session (a browser's)
CallerCookies(e) == <<[name |-> SecurityCookie, val |-> e], [name |-> "ai_user", val |-> e]>>
CallerCookieStrings == {CallerCookies(e) : e \in 0..MaxExchanges}

\* the /booking responses http_client.rs is run on: also with a Set-Cookie
\* header that is not visible ASCII
HcSetCookieChoices(e) ==
    SetCookieChoices(e) \cup
    { <<OpaqueSetCookie(SecurityCookie, e)>>,
      <<OpaqueSetCookie("ai_user", e), SetCookie(SecurityCookie, e, "Path=/", FALSE)>> }

\* value.to_str().unwrap_or("").split(';').next(): the name=value part of the
\* header, or the empty string (no name) when to_str() fails
harvested(h) == IF h.ascii THEN cookie_pair(h) ELSE [name |-> "", val |-> h.val]

\* all_cookies: one element for every Set-Cookie header, in order
RECURSIVE harvest_all(_)
harvest_all(hs) ==
    IF hs = <<>> THEN <<>> ELSE <<harvested(Head(hs))>> \o harvest_all(Tail(hs))

\* security_cookie: the first Set-Cookie header containing
\* "X-Skedda-RequestVerificationCookie=", cut at its first ';'
RECURSIVE harvest_security(_)
harvest_security(hs) ==
    IF hs = <<>> THEN <<>>
    ELSE IF Head(hs).ascii /\ (Head(hs).name = SecurityCookie \/ Head(hs).mentions)
         THEN <<harvested(Head(hs))>>
         ELSE harvest_security(Tail(hs))

\* get_booking_page followed, on the same client, by one of the requests
\* that take the token as an argument and set no Cookie header
SessionOps == {"get_webs_data", "authenticated_get", "authenticated_post"}

\* the Cookie header an operation sets on its request (<<>>: none)
hc_cookie_header(op, arg, hs) ==
    CASE op = "get_booking_data" -> harvest_all(hs)
      [] op = "get_booking_data_with_cookies" -> arg
      [] op = "get_booking_data_synchronized" -> harvest_security(hs)
      [] op \in SessionOps -> <<>>

\* the text of one harvested element: name=value, or "" for the empty string
cookie_text(c) == IF c.name = "" THEN "" ELSE c.name \o "=" \o to_string(c.val)

\* Vec<String>::join(sep)
RECURSIVE join(_, _)
join(parts, sep) ==
    IF parts = <<>> THEN ""
    ELSE IF Len(parts) = 1 THEN parts[1]
         ELSE parts[1] \o sep \o join(Tail(parts), sep)

\* the value of the Cookie header an operation inserts: Some(string), or None
\* when it inserts no Cookie header
hc_cookie_string(cookies) ==
    IF cookies = <<>> THEN None
    ELSE Some(join([i \in 1..Len(cookies) |-> cookie_text(cookies[i])], "; "))

\* the request an operation sends once it has the token: authenticated_get
\* and authenticated_post set the token header only, the others build the
\* /webs request with Accept and Referer
hc_request(op, token, e, cookies) ==
    IF op \in {"authenticated_get", "authenticated_post"}
    THEN [op |-> op, token |-> token, token_exch |-> e, accept |-> "*/*",
          referer |-> None, cookies |-> cookies]
    ELSE WebsRequest(op, token, e, Some("/booking"), cookies)

\* a client built with .cookie_store(true)
hc_cookie_store_enabled == TRUE

\* SkeddaClient::new of http_client.rs builds the client without a cookie store
hc_cookie_store == FALSE

\* the cookies a request carries: its Cookie header, or with none set, the
\* cookies of the client's store
cookies_sent(header, jar) ==
    IF header # <<>> THEN header ELSE IF hc_cookie_store THEN jar ELSE <<>>

LibCall(op, arg) ==
    /\ lib.stage = "idle"
    /\ lib' = [lib EXCEPT !.stage = "booking", !.op = op, !.arg = arg,
                          !.req = None, !.result = "none", !.set_cookies = <<>>,
                          !.cookie_header = None]
    /\ UNCHANGED <<app_vars, exch, webs_data, extract_vars>>

\* GET /booking: send() or text() fails
LibBookingFail ==
    /\ lib.stage = "booking"
    /\ lib' = [lib EXCEPT !.stage = "idle", !.result = "network"]
    /\ UNCHANGED <<app_vars, exch, webs_data, extract_vars>>

\* GET /booking answered: extract the token, build and send GET /webs
LibBookingAnswered(body, hs) ==
    /\ lib.stage = "booking"
    /\ exch' = NextExch
    /\ LET token == hc_extract_csrf_token(body)
           jar == IF hc_cookie_store THEN jar_store(lib.jar, hs) ELSE lib.jar
       IN IF token = None
          THEN lib' = [lib EXCEPT !.stage = "idle", !.result = "no_token", !.jar = jar,
                                  !.set_cookies = hs]
          ELSE lib' = [lib EXCEPT
                         !.stage = "webs",
                         !.jar = jar,
                         !.set_cookies = hs,
                         !.cookie_header =
                             hc_cookie_string(hc_cookie_header(lib.op, lib.arg, hs)),
                         !.req = Some(hc_request(lib.op, token[1], NextExch,
                                        cookies_sent(hc_cookie_header(lib.op, lib.arg, hs), jar)))]
    /\ UNCHANGED <<app_vars, webs_data, extract_vars>>

\* GET /webs: the transport fails, the body is not JSON, or JSON is returned
LibWebsDone(result) ==
    /\ lib.stage = "webs"
    /\ lib' = [lib EXCEPT !.stage = "idle", !.result = result]
    /\ UNCHANGED <<app_vars, exch, webs_data, extract_vars>>

NextHttp ==
    \/ \E op \in HcOps :
          \E arg \in IF op = "get_booking_data_with_cookies" THEN CallerCookieStrings ELSE {<<>>} :
             LibCall(op, arg)
    \/ \E op \in SessionOps : LibCall(op, <<>>)
    \/ LibBookingFail
    \/ \E body \in BookingBodies(NextExch), hs \in HcSetCookieChoices(NextExch) :
          LibBookingAnswered(body, hs)
    \/ \E r \in {"Ok", "network", "decode"} : LibWebsDone(r)

SpecHttp == Init /\ [][NextHttp]_vars

(***************************************************************************)
(* Properties of the interactive application (Spec).                       *)
(***************************************************************************)
PipelineErrors == {"network", "no_token", "decode"}

\* the Enter handler of LocationSelection has just returned
EnterReturned == pc = "top" /\ fetch_result # "none"

\* C1: confirming in LocationSelection with highlighted index i records
\* LOCATIONS[i] and, when the handler returns, the view is BookingForm,
\* whatever the pipeline's outcome.
C1_ConfirmMovesToBookingForm ==
    /\ \A f \in inflight :
          f.cont = "enter" => selected_location = Some(LOCATIONS[list_selected + 1])
    /\ EnterReturned =>
          /\ current_view = "BookingForm"
          /\ selected_location = Some(LOCATIONS[list_selected + 1])

C1_Witness ==
    /\ EnterReturned
    /\ fetch_result = "no_token"
    /\ list_selected = 11
    /\ current_view = "BookingForm"
    /\ selected_location = Some("Westside")

\* C2: when the pipeline of a confirmation fails, the handler leaves the
\* machine in BookingForm with an empty set of resolved space ids.
C2_FailureLeavesEmptyIds ==
    (EnterReturned /\ fetch_result \in PipelineErrors) =>
        (current_view = "BookingForm" /\ selected_location_space_ids = <<>>)

\* C3: resolving a location name no spaceTags entry carries yields no ids
\* (no catalog of the model names a location outside TagNames).
C3_MissYieldsEmpty ==
    (fetch_result = "Ok" /\ selected_location # None /\ selected_location \notin TagNames) =>
        selected_location_space_ids = <<>>

C7_SingleInFlight ==
    /\ Cardinality(inflight) <= 1
    /\ \A f \in inflight : f.id = latest

C7_Witness ==
    /\ selected_location_space_ids # <<>>
    /\ \E f \in inflight : f.cont = "enter" /\ f.stage = "webs" /\ f.id = latest

\* C8: a pipeline failure does not end the process: when test_http_client
\* has returned an error, running is still TRUE and App::run continues with
\* the next statement of its loop.
C8_FailureDoesNotTerminate ==
    fetch_result \in Errors => (running /\ pc \in {"top", "draw"})

C8_Witness == fetch_result = "decode" /\ running /\ pc = "top"

\* C9 as stated: on a transport failure during a confirmation's fetch the
\* view after the event is the view before it (LocationSelection).
C9_TransportFailureStaysPut ==
    (EnterReturned /\ fetch_result = "network") => current_view = "LocationSelection"

\* C9 amended: a transport failure during a confirmation's fetch aborts the
\* pipeline, which leaves the resolved ids and the recorded location as
\* they were, and the view moves to BookingForm all the same.
C9_TransportFailureAborts ==
    [][\A f \in inflight :
          ((BookingTransportFail(f) \/ WebsTransportFail(f)) /\ f.cont = "enter") =>
              /\ current_view' = "BookingForm"
              /\ fetch_result' = "network"
              /\ UNCHANGED <<selected_location, selected_location_space_ids>>]_vars

C9_Witness ==
    /\ EnterReturned
    /\ fetch_result = "network"
    /\ current_view = "BookingForm"
    /\ selected_location_space_ids # <<>>

\* C10: Esc / q in BookingForm moves the view to LocationSelection, discards
\* the recorded location and the resolved ids, and sends no Quit event.
C10_CancelFromBookingForm ==
    [][(KeyEsc /\ current_view = "BookingForm") =>
          /\ current_view' = "LocationSelection"
          /\ selected_location' = None
          /\ selected_location_space_ids' = <<>>
          /\ UNCHANGED <<app_events, running>>]_vars

\* a BookingForm state with a location and resolved ids to discard, at the
\* point where the loop takes the next key
C10_Witness ==
    /\ pc = "events"
    /\ current_view = "BookingForm"
    /\ selected_location = Some("Adair Park")
    /\ selected_location_space_ids = <<"12", "-4">>
    /\ app_events = 0
    /\ running

\* C11: Enter in BookingForm moves the view to Confirmation and changes
\* nothing else of the application: the recorded location, the resolved ids
\* and the highlighted index stay, and no pipeline run is started or scheduled.
C11_ConfirmFormOnlyMovesView ==
    [][KeyEnterForm =>
          /\ current_view' = "Confirmation"
          /\ pc' = "top"
          /\ UNCHANGED <<selected_location, selected_location_space_ids, list_selected,
                         inflight, latest, test_http, exch, running, app_events>>]_vars

\* Confirmation is entered by Enter in BookingForm only: the handler has just
\* returned, with a location and resolved ids it had to keep
C11_Witness ==
    /\ pc = "top"
    /\ current_view = "Confirmation"
    /\ selected_location = Some("Avondale Estates")
    /\ selected_location_space_ids = <<"1", "2", "3">>
    /\ list_selected = 1
    /\ inflight = {}

\* C12: from Confirmation, Enter and Esc / q both move the view to
\* LocationSelection and leave no location recorded.
C12_ConfirmationLeavesToSelection ==
    [][(current_view = "Confirmation" /\ (KeyEnterConfirmation \/ KeyEsc)) =>
          /\ current_view' = "LocationSelection"
          /\ selected_location' = None]_vars

\* back in LocationSelection without a location while ids of the resolution
\* before are still recorded (Enter in Confirmation keeps them)
C12_Witness ==
    /\ pc = "top"
    /\ current_view = "LocationSelection"
    /\ selected_location = None
    /\ selected_location_space_ids = <<"12", "-4">>
    /\ list_selected = 0
    /\ ~test_http

\* the Enter handler of LocationSelection is in the middle of its body
HandlerRunning == pc = "fetch" /\ \E f \in inflight : f.cont = "enter"

\* C13: between events a location is recorded exactly when the view is
\* BookingForm or Confirmation.
C13_LocationIffPastSelection ==
    ~HandlerRunning =>
        (selected_location # None <=> current_view \in {"BookingForm", "Confirmation"})

\* BookingForm reached through a failed pipeline, at the point where the
\* loop takes the next event
C13_Witness ==
    /\ pc = "events"
    /\ current_view = "BookingForm"
    /\ selected_location = Some("Westside")
    /\ selected_location_space_ids = <<>>

\* C17: every GET /webs request of the interactive pipeline carries the token
\* extracted from the /booking response just received, only cookies of that
\* response, Accept: application/json and a Referer naming the /booking page.
C17_WebsRequestComplete ==
    \A f \in inflight :
        f.req # None =>
            /\ f.req[1].token = TokenOf(exch)
            /\ f.req[1].token_exch = exch
            /\ \A i \in 1..Len(f.req[1].cookies) : f.req[1].cookies[i].val = exch
            /\ f.req[1].accept = "application/json"
            /\ f.req[1].referer = Some("/booking")

\* StatusCode::is_success
is_success(status) == status \in 200..299

\* C18: a /webs response of non-success status is never returned as Ok (and
\* so never reaches the resolver), also when its body is valid JSON.
C18_NonSuccessStatusIsAnError ==
    (webs_status # None /\ ~is_success(webs_status[1])) => fetch_result # "Ok"

\* C20: Ctrl-C in any view and Esc / q in LocationSelection put a Quit event
\* on the channel; handling it sets running to FALSE; a queued Quit leads to
\* the end of App::run; Esc / q in BookingForm or Confirmation sends no Quit
\* and leaves running alone.
C20_QuitLeadsToExit ==
    /\ [][/\ ((KeyCtrlC \/ (KeyEsc /\ current_view = "LocationSelection")) =>
                  (app_events' = app_events + 1 /\ running' = running))
           /\ (AppQuit => ~running')
           /\ ((KeyEsc /\ current_view # "LocationSelection") =>
                  UNCHANGED <<app_events, running>>)]_vars
    /\ (app_events > 0) ~> (pc = "done" /\ ~running)

\* App::run has returned after a quit signal given outside LocationSelection
C20_Witness ==
    /\ pc = "done"
    /\ ~running
    /\ current_view = "Confirmation"
    /\ app_events = 0

\* the loop is about to hand the next key to App::handle_key_event
AwaitingKey == pc = "events"

\* C30: no view is terminal. Whenever the loop takes a key, Enter is handled
\* in the current view and so is Esc / q (in LocationSelection as long as the
\* channel has room for the Quit event it sends); Esc / q in BookingForm and
\* Confirmation lands in LocationSelection in that one step; Enter goes
\* LocationSelection -> BookingForm (when its pipeline run returns, which it
\* does) -> Confirmation -> LocationSelection, every time round.
C30_NoTerminalView ==
    /\ [](AwaitingKey =>
            /\ (current_view = "LocationSelection" => ENABLED KeyEnterSelect)
            /\ (current_view = "BookingForm" => ENABLED KeyEnterForm)
            /\ (current_view = "Confirmation" => ENABLED KeyEnterConfirmation)
            /\ ((current_view # "LocationSelection" \/ app_events < MaxQueue) =>
                    ENABLED KeyEsc))
    /\ [][/\ ((KeyEsc /\ current_view # "LocationSelection") =>
                  current_view' = "LocationSelection")
           /\ (KeyEnterSelect => (HandlerRunning' /\ current_view' = "LocationSelection"))
           /\ ((HandlerRunning /\ ~HandlerRunning') =>
                  (current_view' = "BookingForm" /\ pc' = "top"))
           /\ (KeyEnterForm => current_view' = "Confirmation")
           /\ (KeyEnterConfirmation => current_view' = "LocationSelection")]_vars
    /\ HandlerRunning ~> (pc = "top" /\ current_view = "BookingForm")

\* Confirmation of a later lap, waiting for a key: the ids on record were
\* resolved for the location of the lap before
C30_Witness ==
    /\ AwaitingKey
    /\ current_view = "Confirmation"
    /\ selected_location = Some("Westside")
    /\ selected_location_space_ids = <<"1", "2", "3">>
    /\ list_selected = 11
    /\ app_events = 0

\* C31: the highlighted index is always an index of the twelve locations;
\* Down / j moves it one forward and from the last index to 0, Up / k one
\* back and from 0 to the last index, in every view; Up then Down, and Down
\* then Up, bring the index back, and no other key moves it.
C31_IndexValidAndWraps ==
    /\ [](/\ list_selected \in 0..11
          /\ new_selected_down(new_selected_up(list_selected)) = list_selected
          /\ new_selected_up(new_selected_down(list_selected)) = list_selected)
    /\ [][/\ (KeyDown => list_selected' = (list_selected + 1) % 12)
           /\ (KeyUp => list_selected' = (list_selected + 11) % 12)
           /\ (list_selected' # list_selected => (KeyUp \/ KeyDown))]_vars

\* the index was moved while BookingForm shows the location picked at index
\* 0: Up / k from 0 has wrapped to the last index
C31_Witness ==
    /\ pc = "top"
    /\ current_view = "BookingForm"
    /\ selected_location = Some("Adair Park")
    /\ list_selected = 11
    /\ inflight = {}

(***************************************************************************)
(* Properties of the resolver (SpecResolver).                              *)
(***************************************************************************)
\* the index of the first spaceTags entry whose name is the location, or 0
RECURSIVE first_named(_, _, _)
first_named(tags, sel, i) ==
    IF i > Len(tags) THEN 0
    ELSE IF tags[i].obj /\ tags[i].name = sel THEN i ELSE first_named(tags, sel, i + 1)

\* C4: the resolver returns the spaceIds of the FIRST spaceTags entry named
\* exactly like the location, as decimal strings in source order.
C4_FirstEntryDetermines ==
    LET k == first_named(webs_data.tags, selected_location, 1)
    IN (pc = "resolved" /\ selected_location # None /\ k # 0 /\ webs_data.tags[k].ids.arr) =>
           selected_location_space_ids = collect_ids(webs_data.tags[k].ids.v)

\* C23: ids are recorded only for the currently recorded location; in
\* particular none are recorded while no location is.
C23_IdsBelongToLocation ==
    selected_location = None => selected_location_space_ids = <<>>

\* C24: a run sends GET /booking first and GET /webs only once a token has
\* been extracted from the /booking body; a run that fails at /booking or
\* finds no token has sent no /webs; no run sends either request twice.
C24_WebsOnlyAfterToken ==
    /\ requests \in {<<>>, <<GetBooking>>, <<GetBooking, GetWebs>>}
    /\ \A f \in inflight :
          /\ f.stage = "booking" => (requests = <<>> /\ f.req = None)
          /\ f.stage = "webs" =>
                /\ requests = <<GetBooking, GetWebs>>
                /\ f.req # None
                /\ f.req[1].token = TokenOf(exch)
    /\ fetch_result = "client" => requests = <<>>
    /\ fetch_result = "no_token" => requests = <<GetBooking>>
    /\ fetch_result = "network" => requests # <<>>
    /\ fetch_result \in {"Ok", "decode"} => requests = <<GetBooking, GetWebs>>

\* a run has ended for want of a token, after its one request
C24_Witness ==
    /\ pc = "top"
    /\ fetch_result = "no_token"
    /\ requests = <<GetBooking>>
    /\ inflight = {}

\* C25: every pipeline run is one started by Enter in LocationSelection.
C25_OnlyConfirmationFetches == \A f \in inflight : f.cont = "enter"

\* C26: the /webs request of a run carries the token of the /booking exchange
\* of that run and no cookie of any other exchange.
C26_RunUsesOwnExchange ==
    \A f \in inflight :
        f.req # None =>
            /\ f.req[1].token_exch = exch
            /\ \A i \in 1..Len(f.req[1].cookies) :
                  f.req[1].cookies[i].val = f.req[1].token_exch

\* the /webs request of a later run (ids of an earlier one are recorded),
\* with the two cookies its own /booking response set
C26_Witness ==
    /\ selected_location_space_ids # <<>>
    /\ exch = 2
    /\ \E f \in inflight :
          /\ f.cont = "enter"
          /\ f.stage = "webs"
          /\ Len(f.req[1].cookies) = 2
          /\ f.req[1].token_exch = 2

\* C27: Enter in Confirmation leaves the application in the state Esc / q
\* leaves it in: LocationSelection, no location, the ids discarded
\* (cancel_ids), the highlighted index as it was.
C27_ConfirmEqualsCancel ==
    [][KeyEnterConfirmation =>
          <<current_view', selected_location', selected_location_space_ids', list_selected'>>
          = <<"LocationSelection", None, cancel_ids(selected_location_space_ids),
              list_selected>>]_vars

\* C21: the ids recorded after the resolver has run twice on a catalog and a
\* location are those of the first run, and they are the same whatever ids
\* were recorded before.
C21_ResolverIdempotent ==
    /\ pc = "resolved_again" =>
           selected_location_space_ids = resolve(<<>>, selected_location, webs_data)
    /\ pc \in {"resolved", "resolved_again"} =>
           selected_location_space_ids =
               resolve(selected_location_space_ids, selected_location, webs_data)

\* C22: on a catalog whose spaceTags path is absent or no array the resolver
\* completes and leaves no identifiers recorded.
C22_AbsentCatalogYieldsNothing ==
    (pc \in {"resolved", "resolved_again"} /\ ~webs_data.arr) =>
        selected_location_space_ids = <<>>

(***************************************************************************)
(* Properties of extract_csrf_token (SpecExtract).                         *)
(***************************************************************************)
\* an input/meta element of one of the listed names
listed(n) ==
    /\ n.kind = "elem"
    /\ \E k \in 1..Len(hc_selectors) : hc_selectors[k] = <<n.tag, n.name>>

\* the first index >= i of a word that is one of the header names, or 0
RECURSIVE first_name(_, _)
first_name(ws, i) ==
    IF i > Len(ws) THEN 0
    ELSE IF \E k \in 1..Len(token_patterns) : token_patterns[k] = ws[i] THEN i
         ELSE first_name(ws, i + 1)

\* the quoted literal that follows the header name in a text: the name may
\* itself stand in quotes, the literal is the next "..." after it
text_literal(ws) ==
    LET i == first_name(ws, 1)
        in_quotes == i > 1 /\ i < Len(ws) /\ ws[i - 1] = Quote /\ ws[i + 1] = Quote
        from == IF in_quotes THEN i + 2 ELSE i + 1
        q1 == IF i = 0 THEN 0 ELSE find_from(ws, Quote, from)
        q2 == IF q1 = 0 THEN 0 ELSE find_from(ws, Quote, q1 + 1)
    IN IF q2 = 0 THEN None ELSE Some(concat(ws, q1 + 1, q2 - 1))

\* the literal token values of the known markers a body contains
MarkerValues(body) ==
    {body[i].value[1] : i \in {j \in 1..Len(body) : listed(body[j]) /\ body[j].value # None}}
    \cup
    {text_literal(body[i].words)[1] :
        i \in {j \in 1..Len(body) : body[j].kind = "text" /\ text_literal(body[j].words) # None}}

\* C14: on a body that contains a known token marker, extract_csrf_token of
\* http_client.rs succeeds and returns the literal value of a marker of the body.
C14_ExtractionReturnsMarkerValue ==
    (pc = "hc_extracted" /\ MarkerValues(html_content) # {}) =>
        (csrf_token # None /\ csrf_token[1] \in MarkerValues(html_content))

\* C15: extraction (of either client) fails on a body without a known marker,
\* and a token it returns as success is never the empty string.
C15_NoGuessedOrEmptyToken ==
    pc \in {"hc_extracted", "sc_extracted"} =>
        /\ MarkerValues(html_content) = {} => csrf_token = None
        /\ csrf_token # None => csrf_token[1] # ""

\* the listed markup locations whose first element has a value attribute
yielding(body) ==
    {k \in 1..Len(hc_selectors) : selector_value(body, hc_selectors[k]) # None}

\* C16: when a listed markup location yields a value, extract_csrf_token of
\* http_client.rs returns the value of the first such location in list order,
\* whatever header names the text of the body holds; the scan of the text
\* decides only when no location yields a value.
C16_MarkupBeforeScan ==
    (pc = "hc_extracted" /\ yielding(html_content) # {}) =>
        LET k == CHOOSE x \in yielding(html_content) : \A y \in yielding(html_content) : x <= y
        IN csrf_token = selector_value(html_content, hc_selectors[k])

\* a body with the header name and a quoted literal in its text, followed by
\* a meta element: the element's value is returned
C16_Witness ==
    /\ pc = "hc_extracted"
    /\ html_content = <<Text(<<HeaderName, ":", Quote, TokenOf(4), Quote>>),
                        Elem("meta", "csrf-token", Some(TokenOf(2)))>>
    /\ csrf_token = Some(TokenOf(2))

(***************************************************************************)
(* Properties of the http_client.rs caller (SpecHttp).                     *)
(***************************************************************************)
\* every cookie of the request was issued by the exchange that issued its token
SameExchange(req) == \A i \in 1..Len(req.cookies) : req.cookies[i].val = req.token_exch

\* C5 as stated: every GET /webs request carries a token and cookies issued
\* by the same /booking response.
C5_TokenAndCookiesSameExchange == lib.req # None => SameExchange(lib.req[1])

\* C5 amended: the requests of get_booking_data and
\* get_booking_data_synchronized carry only cookies of the /booking response
\* their token came from; get_booking_data_with_cookies sends the caller's
\* cookie string as given, with the token of its own /booking exchange.
C5_HarvestedCookiesSameExchange ==
    lib.req # None =>
        IF lib.op = "get_booking_data_with_cookies"
        THEN lib.req[1].cookies = lib.arg /\ lib.req[1].token_exch = exch
        ELSE SameExchange(lib.req[1]) /\ lib.req[1].token_exch = exch

\* C19: a request made with get_webs_data, authenticated_get or
\* authenticated_post after get_booking_page on the same client carries the
\* cookies the /booking response set.
C19_ClientReplaysCookies ==
    (lib.req # None /\ lib.op \in SessionOps) =>
        \A i \in 1..Len(lib.set_cookies) :
            \E j \in 1..Len(lib.req[1].cookies) :
                lib.req[1].cookies[j] = cookie_pair(lib.set_cookies[i])

\* the name=value part of a Set-Cookie header
name_value(h) == h.name \o "=" \o to_string(h.val)

\* C28: the Cookie header of get_booking_data's /webs request is the
\* name=value parts of the Set-Cookie headers of its /booking response, in
\* order, joined by "; "; with no Set-Cookie header there is no Cookie header.
C28_HarvestAndReplay ==
    (lib.op = "get_booking_data" /\ lib.req # None) =>
        lib.cookie_header =
            IF lib.set_cookies = <<>> THEN None
            ELSE Some(join([i \in 1..Len(lib.set_cookies) |-> name_value(lib.set_cookies[i])],
                           "; "))

\* C29: get_booking_data_synchronized replays at most one cookie, and never
\* one whose name is not X-Skedda-RequestVerificationCookie.
C29_OnlyTheNamedCookie ==
    (lib.op = "get_booking_data_synchronized" /\ lib.req # None) =>
        /\ Len(lib.req[1].cookies) <= 1
        /\ \A i \in 1..Len(lib.req[1].cookies) : lib.req[1].cookies[i].name = SecurityCookie

C5_Witness ==
    /\ lib.stage = "webs"
    /\ lib.op = "get_booking_data"
    /\ Len(lib.req[1].cookies) = 2
    /\ lib.result = "none"

====
